---------------------------- MODULE Spec2Model ----------------------------
(***************************************************************************)
(* Model of the tensorflow-serving client library (src/src/lib.rs).        *)
(*                                                                         *)
(* Spec       : the life of one TensorflowServingBuilder - the three       *)
(*              setters and build(), with the transport's connect()        *)
(*              answering Ok or Err.                                       *)
(* ClientSpec : the requests of one built TensorflowServing client -       *)
(*              classify() and predict_with_preprocessing(), each split    *)
(*              at its single .await on the transport.                     *)
(***************************************************************************)
EXTENDS Integers, Sequences, FiniteSets, TLC

VARIABLES
    hostname,        \* TensorflowServingBuilder.hostname : Option<String>
    port,            \* TensorflowServingBuilder.port : Option<u16>
    signature_name,  \* TensorflowServingBuilder.signature_name : Option<String>
    connects,        \* addresses handed to PredictionServiceClient::connect, in order
    client,          \* the TensorflowServing most recently returned by build(), if any
    log,             \* history of the calls made on the builder
    call,            \* the client call in progress or last finished
    wire             \* requests handed to the transport during `call`, with the events before them

vars == <<hostname, port, signature_name, connects, client, log, call, wire>>

-----------------------------------------------------------------------------
(* Bounds and input domains *)

MaxOps == 6        \* calls made on one builder
MaxDim == 2        \* image width and height
MaxLen == 2        \* elements of one payload list
MaxVersion == 2    \* model versions

Hostnames == {"localhost", "tfs.internal"}
Ports == {8500, 9000}
SigNames == {"predict_images", "classify_x"}
ModelNames == {"resnet", "mnist"}
Keys == {"image", "label"}

-----------------------------------------------------------------------------
(* Option<T> and Result<T> *)

None == [some |-> FALSE]
Some(x) == [some |-> TRUE, val |-> x]

Ok(x) == [ok |-> TRUE, val |-> x]
Err(e) == [ok |-> FALSE, err |-> e]

\* Option::unwrap_or_else
unwrap_or_else(o, d) == IF o.some THEN o.val ELSE d

\* format!("http://{}:{}", hostname, port)
format_address(h, p) == <<"http://", h, ":", p>>

\* the transport's connect(): an external call that answers Ok(channel) or Err
ConnectAnswers == {"connected", "refused"}

-----------------------------------------------------------------------------
(* TensorflowServingBuilder *)

\* #[derive(Default)]: every field None
BuilderDefault == [hostname |-> None, port |-> None, signature_name |-> None]

Builder == [hostname |-> hostname, port |-> port, signature_name |-> signature_name]

\* Variants of build() with one slip each, used to show that the properties
\* below depend on the code of build().

\* port validated before hostname
build_port_first(self, answer) ==
    IF self.port = None
    THEN [self |-> self, ret |-> Err("port not provided"), connect |-> <<>>]
    ELSE IF self.hostname = None
    THEN [self |-> self, ret |-> Err("hostname not provided"), connect |-> <<>>]
    ELSE [self |-> [self EXCEPT !.signature_name = None, !.hostname = None],
          ret |-> IF answer = "connected"
                  THEN Ok([client |-> format_address(self.hostname.val, self.port.val),
                           signature_name |->
                               unwrap_or_else(self.signature_name, "serving_default")])
                  ELSE Err("transport error"),
          connect |-> <<format_address(self.hostname.val, self.port.val)>>]

\* connect() called before the port is validated, with port 0 when unset
build_connect_first(self, answer) ==
    IF self.hostname = None
    THEN [self |-> self, ret |-> Err("hostname not provided"), connect |-> <<>>]
    ELSE LET addr == format_address(self.hostname.val, unwrap_or_else(self.port, 0))
         IN  IF self.port = None
             THEN [self |-> self, ret |-> Err("port not provided"), connect |-> <<addr>>]
             ELSE [self |-> [self EXCEPT !.signature_name = None, !.hostname = None],
                   ret |-> IF answer = "connected"
                           THEN Ok([client |-> addr,
                                    signature_name |->
                                        unwrap_or_else(self.signature_name, "serving_default")])
                           ELSE Err("transport error"),
                   connect |-> <<addr>>]

\* signature_name cloned, not taken
build_keeps_signature(self, answer) ==
    IF self.hostname = None
    THEN [self |-> self, ret |-> Err("hostname not provided"), connect |-> <<>>]
    ELSE IF self.port = None
    THEN [self |-> self, ret |-> Err("port not provided"), connect |-> <<>>]
    ELSE [self |-> [self EXCEPT !.hostname = None],
          ret |-> IF answer = "connected"
                  THEN Ok([client |-> format_address(self.hostname.val, self.port.val),
                           signature_name |->
                               unwrap_or_else(self.signature_name, "serving_default")])
                  ELSE Err("transport error"),
          connect |-> <<format_address(self.hostname.val, self.port.val)>>]

\* hostname cloned, not taken
build_keeps_hostname(self, answer) ==
    IF self.hostname = None
    THEN [self |-> self, ret |-> Err("hostname not provided"), connect |-> <<>>]
    ELSE IF self.port = None
    THEN [self |-> self, ret |-> Err("port not provided"), connect |-> <<>>]
    ELSE [self |-> [self EXCEPT !.signature_name = None],
          ret |-> IF answer = "connected"
                  THEN Ok([client |-> format_address(self.hostname.val, self.port.val),
                           signature_name |->
                               unwrap_or_else(self.signature_name, "serving_default")])
                  ELSE Err("transport error"),
          connect |-> <<format_address(self.hostname.val, self.port.val)>>]

\* signature_name taken before the fields are validated
build_takes_early(self, answer) ==
    LET emptied == [self EXCEPT !.signature_name = None]
    IN  IF self.hostname = None
        THEN [self |-> emptied, ret |-> Err("hostname not provided"), connect |-> <<>>]
        ELSE IF self.port = None
        THEN [self |-> emptied, ret |-> Err("port not provided"), connect |-> <<>>]
        ELSE [self |-> [emptied EXCEPT !.hostname = None],
              ret |-> IF answer = "connected"
                      THEN Ok([client |-> format_address(self.hostname.val, self.port.val),
                               signature_name |->
                                   unwrap_or_else(self.signature_name, "serving_default")])
                      ELSE Err("transport error"),
              connect |-> <<format_address(self.hostname.val, self.port.val)>>]

\* build(): self is the builder's fields, answer is what connect() says if it is
\* called.  The result is the builder's fields afterwards, the value returned and
\* the addresses passed to connect().
build_fn(self, answer) ==
    IF self.hostname = None
    THEN [self |-> self, ret |-> Err("hostname not provided"), connect |-> <<>>]
    ELSE IF self.port = None
    THEN [self |-> self, ret |-> Err("port not provided"), connect |-> <<>>]
    ELSE LET sig == unwrap_or_else(self.signature_name, "serving_default")
             taken == [self EXCEPT !.signature_name = None, !.hostname = None]
             addr == format_address(self.hostname.val, taken.port.val)
         IN  [self |-> taken,
              ret |-> IF answer = "connected"
                      THEN Ok([client |-> addr, signature_name |-> sig])
                      ELSE Err("transport error"),
              connect |-> <<addr>>]

LogEntry(op, arg, pre, ret, conn) ==
    [op |-> op, arg |-> arg, pre |-> pre, ret |-> ret, connect |-> conn]

builder_hostname(h) ==
    /\ Len(log) < MaxOps
    /\ hostname' = Some(h)
    /\ log' = Append(log, LogEntry("hostname", Some(h), Builder, Ok("self"), <<>>))
    /\ UNCHANGED <<port, signature_name, connects, client, call, wire>>

builder_port(p) ==
    /\ Len(log) < MaxOps
    /\ port' = Some(p)
    /\ log' = Append(log, LogEntry("port", Some(p), Builder, Ok("self"), <<>>))
    /\ UNCHANGED <<hostname, signature_name, connects, client, call, wire>>

builder_signature_name(s) ==
    /\ Len(log) < MaxOps
    /\ signature_name' = Some(s)
    /\ log' = Append(log, LogEntry("signature_name", Some(s), Builder, Ok("self"), <<>>))
    /\ UNCHANGED <<hostname, port, connects, client, call, wire>>

build(answer) ==
    /\ Len(log) < MaxOps
    /\ LET r == build_fn(Builder, answer)
       IN  /\ hostname' = r.self.hostname
           /\ port' = r.self.port
           /\ signature_name' = r.self.signature_name
           /\ connects' = connects \o r.connect
           /\ client' = IF r.ret.ok THEN Some(r.ret.val) ELSE client
           /\ log' = Append(log, LogEntry("build", None, Builder, r.ret, r.connect))
    /\ UNCHANGED <<call, wire>>

-----------------------------------------------------------------------------
(* ModelDescription and ModelSpec *)

\* impl From<S> for ModelDescription<S>
From(s) == [name |-> s, version |-> None]

\* what a caller passes where S: Into<ModelDescription<F>> is asked for: a bare
\* model name, or a ModelDescription written out
bare_name(n) == [bare |-> TRUE, name |-> n]
explicit(n, v) == [bare |-> FALSE, desc |-> [name |-> n, version |-> v]]

Descriptions ==
    {bare_name(n) : n \in ModelNames}
        \cup {explicit(n, v) : n \in ModelNames, v \in {None} \cup {Some(i) : i \in 1..MaxVersion}}

\* model_description.into()
into_description(arg) == IF arg.bare THEN From(arg.name) ELSE arg.desc

\* VersionChoice::Version(version_id)
Version(v) == [Version |-> v]

\* build_model_spec with the version left out
build_model_spec_no_version(self, model_description) ==
    [name |-> into_description(model_description).name,
     version_choice |-> None,
     signature_name |-> self.signature_name]

\* TensorflowServing::build_model_spec
build_model_spec(self, model_description) ==
    LET desc == into_description(model_description)
        version == IF desc.version.some THEN Some(Version(desc.version.val)) ELSE None
    IN  [name |-> desc.name,
         version_choice |-> version,
         signature_name |-> self.signature_name]

-----------------------------------------------------------------------------
(* Payload and Features *)

RECURSIVE SeqsUpTo(_, _)
SeqsUpTo(S, n) ==
    IF n = 0 THEN {<<>>}
    ELSE LET shorter == SeqsUpTo(S, n - 1)
         IN  shorter \cup {Append(q, x) : q \in {t \in shorter : Len(t) = n - 1}, x \in S}

\* impl From<Vec<Vec<u8>>>, From<Vec<i64>>, From<Vec<f32>> for Payload
from_bytes(v) == [variant |-> "Bytes", v |-> v]
from_ints(v) == [variant |-> "Ints", v |-> v]
from_floats(v) == [variant |-> "Floats", v |-> v]

\* list elements: a Vec<u8>, an i64, an f32
U8s(b) == [bytes |-> b]
I64(n) == [i64 |-> n]
F32(x) == [f32 |-> x]

Payloads ==
    {from_bytes(v) : v \in SeqsUpTo({U8s(<<>>), U8s(<<104, 105>>)}, MaxLen)}
        \cup {from_ints(v) : v \in SeqsUpTo({I64(-1), I64(7)}, MaxLen)}
        \cup {from_floats(v) : v \in SeqsUpTo({F32(0), F32(3)}, MaxLen)}

PayloadMaps == UNION {[K -> Payloads] : K \in SUBSET Keys}

\* the closure of to_features with an empty list left without a kind, as a
\* proto3 encoder that skips empty repeated fields would leave it
feature_of_skips_empty(payload) ==
    IF payload.v = <<>> THEN [kind |-> None]
    ELSE CASE payload.variant = "Bytes" -> [kind |-> Some([list |-> "BytesList", value |-> payload.v])]
           [] payload.variant = "Ints" -> [kind |-> Some([list |-> "Int64List", value |-> payload.v])]
           [] payload.variant = "Floats" -> [kind |-> Some([list |-> "FloatList", value |-> payload.v])]

\* the closure of to_features: one map entry's payload to its Feature
feature_of(payload) ==
    CASE payload.variant = "Bytes" -> [kind |-> Some([list |-> "BytesList", value |-> payload.v])]
      [] payload.variant = "Ints" -> [kind |-> Some([list |-> "Int64List", value |-> payload.v])]
      [] payload.variant = "Floats" -> [kind |-> Some([list |-> "FloatList", value |-> payload.v])]

\* MapToFeatures::to_features
to_features(payload_map) ==
    [feature |-> [k \in DOMAIN payload_map |-> feature_of(payload_map[k])]]

\* TensorflowServing::build_input
build_input(payload_map) ==
    LET ft == to_features(payload_map)
        example == [features |-> Some(ft)]
        example_list == [examples |-> <<example>>]
    IN  [kind |-> Some([ExampleList |-> example_list])]

-----------------------------------------------------------------------------
(* Images *)

\* bytes per pixel of the decoded buffer, by DynamicImage variant
Channels == [Luma8 |-> 1, LumaA8 |-> 2, Rgb8 |-> 3, Rgba8 |-> 4]
ColorTypes == DOMAIN Channels

Seeds == {11, 200}

\* a decoded image: its buffer holds width * height pixels of Channels[color]
\* bytes each, row by row
DynamicImage(color, w, h, seed) ==
    [color |-> color, width |-> w, height |-> h,
     buf |-> [i \in 1..(w * h * Channels[color]) |-> (seed + 37 * i) % 256]]

DynamicImages ==
    {DynamicImage(c, w, h, sd) : c \in ColorTypes, w \in 1..MaxDim, h \in 1..MaxDim, sd \in Seeds}

\* what a caller passes where I: Image is asked for: a decoded image, or a path
\* together with what image::open finds there
ImageArgs ==
    {[kind |-> "DynamicImage", image |-> Ok(im)] : im \in DynamicImages}
        \cup {[kind |-> "path", image |-> Ok(im)] : im \in DynamicImages}
        \cup {[kind |-> "path", image |-> Err("image error")]}

\* Image::to_image: a clone of the decoded image, or image::open(path)
to_image(img) == img.image

\* GenericImageView::dimensions
dimensions(im) == <<im.width, im.height>>

\* DynamicImage::raw_pixels: the bytes of the buffer as they are stored
raw_pixels(im) == im.buf

\* the caller's preprocessing_fn: Fn(f32) -> f32
PreprocessingFns == {"identity", "invert"}
apply(fn, x) == IF fn = "identity" THEN x ELSE F32(255 - x.f32)

\* *p as f32
as_f32(p) == F32(p)

\* the TensorProto predict_with_preprocessing builds from a decoded image
build_tensor(im, preprocessing_fn) ==
    LET wh == dimensions(im)
        dims == [i \in 1..4 |-> [size |-> <<1, wh[1], wh[2], 3>>[i], name |-> ""]]
        raw == raw_pixels(im)
        pixels == [i \in 1..Len(raw) |-> apply(preprocessing_fn, as_f32(raw[i]))]
    IN  [dtype |-> 1, tensor_shape |-> Some([dim |-> dims]), float_val |-> pixels]

-----------------------------------------------------------------------------
(* TensorflowServing: classify and predict_with_preprocessing *)

Event(ev, request) == [ev |-> ev, request |-> request]

\* classify up to its .await: the events in order
classify_fn(self, model_name, payload_map) ==
    LET req == [model_spec |-> Some(build_model_spec(self, model_name)),
                input |-> Some(build_input(payload_map))]
    IN  [events |-> <<Event("classify", Some(req))>>, ret |-> None]

\* predict_with_preprocessing with the error of to_image looked at only after
\* the request has gone out
predict_sends_first(self, img, model_description, preprocessing_fn) ==
    LET loaded == to_image(img)
        request == [model_spec |-> Some(build_model_spec(self, model_description)),
                    inputs |-> IF loaded.ok
                               THEN [k \in {"input"} |-> build_tensor(loaded.val, preprocessing_fn)]
                               ELSE <<>>]
    IN  [events |-> <<Event("to_image", None), Event("predict", Some(request))>>,
         ret |-> IF loaded.ok THEN None ELSE Some(loaded)]

\* predict_with_preprocessing up to its .await: the events in order, and the
\* value returned if it returns before the .await
predict_fn(self, img, model_description, preprocessing_fn) ==
    LET loaded == to_image(img)
    IN  IF ~loaded.ok
        THEN [events |-> <<Event("to_image", None)>>, ret |-> Some(loaded)]
        ELSE LET tensor == build_tensor(loaded.val, preprocessing_fn)
                 request == [model_spec |-> Some(build_model_spec(self, model_description)),
                             inputs |-> [k \in {"input"} |-> tensor]]
             IN  [events |-> <<Event("to_image", None), Event("predict", Some(request))>>,
                  ret |-> None]

\* what the transport can answer to a predict or classify request
ResponseTensors ==
    [dtype : {"DT_INT64", "DT_INT32"},
     dims : {<<>>, <<1>>, <<2>>, <<1, 1>>},
     float_val : {<<>>},
     int64_val : {<<I64(4)>>}]

Probabilities ==
    [dtype |-> "DT_FLOAT", dims |-> <<2>>, float_val |-> <<F32(1), F32(9)>>, int64_val |-> <<>>]

PredictResponses ==
    {[outputs |-> o] :
        o \in UNION {[K -> ResponseTensors \cup {Probabilities}] : K \in SUBSET {"probabilities", "classes"}}}

PredictAnswers ==
    {Err("transport status")}
        \cup {Ok(r) : r \in {x \in PredictResponses :
                                "probabilities" \in DOMAIN x.outputs
                                    => x.outputs["probabilities"] = Probabilities}}

ClassifyAnswers == {Err("transport status"), Ok([result |-> "classifications"])}

Answers(op) == IF op = "predict" THEN PredictAnswers ELSE ClassifyAnswers

\* the rest of either call after its .await: `?` on the transport's answer,
\* then unimplemented!("{:#?}", resp)
after_await(answer) == IF ~answer.ok THEN answer ELSE [ok |-> FALSE, panic |-> "not implemented"]

Idle == [op |-> "idle", state |-> "idle"]

classify ==
    /\ client # None
    /\ call = Idle
    /\ \E model_name \in Descriptions, payload_map \in PayloadMaps :
           LET r == classify_fn(client.val, model_name, payload_map)
           IN  /\ wire' = r.events
               /\ call' = [op |-> "classify",
                           args |-> [model |-> model_name, payload_map |-> payload_map],
                           state |-> IF r.ret = None THEN "awaiting" ELSE "returned",
                           answer |-> None,
                           ret |-> r.ret]
    /\ UNCHANGED <<hostname, port, signature_name, connects, client, log>>

predict_with_preprocessing ==
    /\ client # None
    /\ call = Idle
    /\ \E img \in ImageArgs, model_description \in Descriptions,
          preprocessing_fn \in PreprocessingFns :
           LET r == predict_fn(client.val, img, model_description, preprocessing_fn)
           IN  /\ wire' = r.events
               /\ call' = [op |-> "predict",
                           args |-> [img |-> img, model |-> model_description,
                                     preprocessing_fn |-> preprocessing_fn],
                           state |-> IF r.ret = None THEN "awaiting" ELSE "returned",
                           answer |-> None,
                           ret |-> r.ret]
    /\ UNCHANGED <<hostname, port, signature_name, connects, client, log>>

\* the transport answers the request the call is waiting on
transport_answers ==
    /\ call.state = "awaiting"
    /\ \E answer \in Answers(call.op) :
           call' = [call EXCEPT !.state = "returned",
                                !.answer = Some(answer),
                                !.ret = Some(after_await(answer))]
    /\ UNCHANGED <<hostname, port, signature_name, connects, client, log, wire>>

\* the caller has the outcome; the client can be called again
call_returns ==
    /\ call.state = "returned"
    /\ call' = Idle
    /\ wire' = <<>>
    /\ UNCHANGED <<hostname, port, signature_name, connects, client, log>>

Init ==
    /\ hostname = BuilderDefault.hostname
    /\ port = BuilderDefault.port
    /\ signature_name = BuilderDefault.signature_name
    /\ connects = <<>>
    /\ client = None
    /\ log = <<>>
    /\ call = Idle
    /\ wire = <<>>

Next ==
    \/ \E h \in Hostnames : builder_hostname(h)
    \/ \E p \in Ports : builder_port(p)
    \/ \E s \in SigNames : builder_signature_name(s)
    \/ \E a \in ConnectAnswers : build(a)

Spec == Init /\ [][Next]_vars

\* a builder used once: hostname, port, perhaps signature_name, then a build()
\* that connected
ClientInit ==
    \E so \in {None} \cup {Some(sg) : sg \in SigNames} :
        LET h == "localhost"
            p == 8500
            b1 == [BuilderDefault EXCEPT !.hostname = Some(h)]
            b2 == [b1 EXCEPT !.port = Some(p)]
            b3 == [b2 EXCEPT !.signature_name = so]
            r == build_fn(b3, "connected")
            setters == <<LogEntry("hostname", Some(h), BuilderDefault, Ok("self"), <<>>),
                         LogEntry("port", Some(p), b1, Ok("self"), <<>>)>>
                       \o (IF so = None THEN <<>>
                           ELSE <<LogEntry("signature_name", so, b2, Ok("self"), <<>>)>>)
        IN  /\ hostname = r.self.hostname
            /\ port = r.self.port
            /\ signature_name = r.self.signature_name
            /\ connects = r.connect
            /\ client = IF r.ret.ok THEN Some(r.ret.val) ELSE None
            /\ log = Append(setters, LogEntry("build", None, b3, r.ret, r.connect))
            /\ call = Idle
            /\ wire = <<>>

ClientNext ==
    \/ classify
    \/ predict_with_preprocessing
    \/ transport_answers
    \/ call_returns

ClientSpec == ClientInit /\ [][ClientNext]_vars

-----------------------------------------------------------------------------
(* Reading the builder's history *)

\* the builder's fields right after the i-th call
Post(i) == IF i < Len(log) THEN log[i + 1].pre ELSE Builder

Builds == {i \in 1..Len(log) : log[i].op = "build"}

\* the builds that got as far as connect()
Connecting == {i \in Builds : log[i].connect # <<>>}

\* the builds that returned because a required field was missing
Rejected == {i \in Builds : log[i].ret \in {Err("hostname not provided"), Err("port not provided")}}

\* the calls of setter `op` made after call `from` and before call `to`
SetterCalls(op, from, to) == {j \in 1..Len(log) : from < j /\ j < to /\ log[j].op = op}

Latest(S) == CHOOSE j \in S : \A k \in S : k <= j

\* the value most recently given to setter `op` in (from, to), as an Option
LatestArg(op, from, to) ==
    IF SetterCalls(op, from, to) = {} THEN None ELSE log[Latest(SetterCalls(op, from, to))].arg

-----------------------------------------------------------------------------
(* C1: build() checks hostname before port.  A build() started with hostname
   unset returns "hostname not provided", whatever port and signature name
   are; a build() started with hostname set and port unset returns
   "port not provided". *)
C1_HostnameBeforePort ==
    \A i \in Builds :
        /\ log[i].pre.hostname = None => log[i].ret = Err("hostname not provided")
        /\ (log[i].pre.hostname # None /\ log[i].pre.port = None)
               => log[i].ret = Err("port not provided")

C1_Witness ==
    /\ \E i \in Builds : /\ log[i].pre.hostname = None
                         /\ log[i].pre.port # None
                         /\ log[i].pre.signature_name # None
    /\ \E i \in Builds : log[i].pre.hostname # None /\ log[i].pre.port = None

(* C2: the transport's connect() is called only inside a build() that started
   with both hostname and port set, once per such build(); setters and a
   build() with a field missing call it zero times. *)
C2_ConnectOnlyWhenConfigured ==
    /\ \A i \in 1..Len(log) :
           log[i].connect # <<>> =>
               /\ log[i].op = "build"
               /\ log[i].pre.hostname # None
               /\ log[i].pre.port # None
    /\ Len(connects) =
           Cardinality({i \in Builds : log[i].pre.hostname # None /\ log[i].pre.port # None})

C2_Witness ==
    /\ Len(connects) = 1
    /\ \E i \in Builds : log[i].pre.hostname = None /\ log[i].connect = <<>>
    /\ \E i \in Builds : log[i].pre.hostname # None /\ log[i].pre.port = None

(* C9: a build() that reached connect(), whether it connected or was refused,
   leaves hostname and signature name unset and port as it was; a build()
   called right after it returns "hostname not provided" and does not call
   connect(). *)
C9_BuildConsumesBuilder ==
    \A i \in Connecting :
        /\ Post(i).hostname = None
        /\ Post(i).signature_name = None
        /\ Post(i).port = log[i].pre.port
        /\ Post(i).port # None
        /\ (i < Len(log) /\ log[i + 1].op = "build") =>
               /\ log[i + 1].ret = Err("hostname not provided")
               /\ log[i + 1].connect = <<>>

C9_Witness ==
    \E i \in Connecting :
        /\ ~log[i].ret.ok
        /\ log[i].pre.signature_name # None
        /\ i < Len(log)
        /\ log[i + 1].op = "build"

(* C10: a build() that returns because hostname or port is missing changes
   none of the three fields; when only fields that were missing are then set
   and build() is called again, it connects to http://{hostname}:{port} made
   of the values set before and after the failure, and a client it returns
   has the signature name that was set before the failure (the default if
   none was). *)
Missing(i) == {f \in {"hostname", "port"} : log[i].pre[f] = None}

OnlyMissingSetBetween(i, k) ==
    /\ \A j \in (i + 1)..(k - 1) : log[j].op \in Missing(i)
    /\ \A f \in Missing(i) : SetterCalls(f, i, k) # {}

ValueAt(f, i, k) == IF log[i].pre[f] # None THEN log[i].pre[f] ELSE LatestArg(f, i, k)

C10_RejectedBuildKeepsFields ==
    \A i \in Rejected :
        /\ Post(i) = log[i].pre
        /\ \A k \in Builds :
               (i < k /\ OnlyMissingSetBetween(i, k)) =>
                   /\ log[k].connect =
                          <<format_address(ValueAt("hostname", i, k).val, ValueAt("port", i, k).val)>>
                   /\ log[k].ret.ok =>
                          log[k].ret.val.signature_name =
                              unwrap_or_else(log[i].pre.signature_name, "serving_default")

C10_Witness ==
    \E i \in Rejected : \E k \in Builds :
        /\ i < k
        /\ OnlyMissingSetBetween(i, k)
        /\ log[i].pre.signature_name # None
        /\ log[i].pre.hostname # None
        /\ log[k].ret.ok

(* C3: every build() that returns a client gives it the signature name most
   recently passed to signature_name since the last build() that reached
   connect() (since the builder was made, if there was none), and
   "serving_default" if signature_name was not called since then; that name is
   the one on the ModelSpec of each of the client's requests. *)
LastConnecting(i) ==
    IF {j \in Connecting : j < i} = {} THEN 0 ELSE Latest({j \in Connecting : j < i})

C3_SignatureSinceLastConnect ==
    \A i \in Builds :
        log[i].ret.ok =>
            LET expected == unwrap_or_else(LatestArg("signature_name", LastConnecting(i), i),
                                           "serving_default")
            IN  /\ log[i].ret.val.signature_name = expected
                /\ \A d \in Descriptions :
                       build_model_spec(log[i].ret.val, d).signature_name = expected

C3_Witness ==
    \E i \in Builds : \E k \in Builds :
        /\ i < k
        /\ log[i].ret.ok
        /\ log[i].ret.val.signature_name \in SigNames
        /\ log[k].ret.ok
        /\ log[k].ret.val.signature_name = "serving_default"

\* C3 as first stated: the name is the value most recently passed to
\* signature_name on the builder, or "serving_default" if it was never called.
C3_Original ==
    \A i \in Builds :
        log[i].ret.ok =>
            LET expected == unwrap_or_else(LatestArg("signature_name", 0, i), "serving_default")
            IN  /\ log[i].ret.val.signature_name = expected
                /\ \A d \in Descriptions :
                       build_model_spec(log[i].ret.val, d).signature_name = expected

-----------------------------------------------------------------------------
(* Reading a client call *)

Requests == {i \in 1..Len(wire) : wire[i].request # None}

InClassify == call.op = "classify"
InPredict == call.op = "predict"

\* the three colour bytes of every pixel of a decoded image, row by row: the
\* buffer of an Rgb8 image, with alpha dropped and grey repeated for the others
RgbBytes(im) ==
    LET ch == Channels[im.color]
    IN  [i \in 1..(im.width * im.height * 3) |->
            LET px == (i - 1) \div 3
                c == (i - 1) % 3
            IN  IF ch >= 3 THEN im.buf[px * ch + c + 1] ELSE im.buf[px * ch + 1]]

(* C4: for a decoded image of width W and height H, of any pixel format, the
   tensor in the predict request has dims [1, W, H, 3] and exactly W*H*3 float
   values, each the preprocessing function applied to the matching colour
   byte in order, alpha bytes left out. *)
C4_TensorOfImage ==
    (InPredict /\ to_image(call.args.img).ok) =>
        \A i \in Requests :
            LET im == to_image(call.args.img).val
                tensor == wire[i].request.val.inputs["input"]
                rgb == RgbBytes(im)
            IN  /\ [d \in 1..4 |-> tensor.tensor_shape.val.dim[d].size]
                       = <<1, im.width, im.height, 3>>
                /\ Len(tensor.float_val) = im.width * im.height * 3
                /\ tensor.float_val
                       = [j \in 1..Len(rgb) |-> apply(call.args.preprocessing_fn, F32(rgb[j]))]

(* C5: the input of a classify request is an example list of exactly one
   example; its Features has exactly the keys of the payload map, and each
   key's feature is the list kind of its payload's variant (Bytes to
   BytesList, Ints to Int64List, Floats to FloatList) with the same elements
   in the same order; an empty payload list gives a present, empty list. *)
KindOf == [Bytes |-> "BytesList", Ints |-> "Int64List", Floats |-> "FloatList"]

C5_FeaturesOfPayloadMap ==
    InClassify =>
        \A i \in Requests :
            LET pm == call.args.payload_map
                input == wire[i].request.val.input
                examples == input.val.kind.val.ExampleList.examples
            IN  /\ input.some /\ input.val.kind.some
                /\ Len(examples) = 1
                /\ examples[1].features.some
                /\ DOMAIN examples[1].features.val.feature = DOMAIN pm
                /\ \A k \in DOMAIN pm :
                       LET feature == examples[1].features.val.feature[k]
                       IN  /\ feature.kind.some
                           /\ feature.kind.val.list = KindOf[pm[k].variant]
                           /\ feature.kind.val.value = pm[k].v
                           /\ Len(feature.kind.val.value) = Len(pm[k].v)

C5_Witness ==
    /\ InClassify
    /\ Requests # {}
    /\ DOMAIN call.args.payload_map = Keys
    /\ call.args.payload_map["image"].variant = "Bytes"
    /\ Len(call.args.payload_map["image"].v) = 2
    /\ call.args.payload_map["label"] = from_ints(<<>>)

(* C6: the ModelSpec of every classify and predict request has the name given
   by the caller; its version choice is absent when the caller gave a bare
   model name and is Version(v) when the caller gave a description with
   version v. *)
C6_ModelSpecOfDescription ==
    (InClassify \/ InPredict) =>
        \A i \in Requests :
            LET arg == call.args.model
                model_spec == wire[i].request.val.model_spec
            IN  /\ model_spec.some
                /\ arg.bare =>
                       /\ model_spec.val.name = arg.name
                       /\ model_spec.val.version_choice = None
                       /\ into_description(arg) = [name |-> arg.name, version |-> None]
                /\ ~arg.bare =>
                       /\ model_spec.val.name = arg.desc.name
                       /\ arg.desc.version.some =>
                              model_spec.val.version_choice = Some(Version(arg.desc.version.val))
                       /\ ~arg.desc.version.some => model_spec.val.version_choice = None

C6_Witness ==
    /\ InPredict
    /\ Requests # {}
    /\ call.args.model = explicit("resnet", Some(MaxVersion))

\* PredictionResult::from_raw as the comment block of lib.rs writes it
DecodedPrediction(response) ==
    LET outputs == response.outputs
    IN  IF "probabilities" \notin DOMAIN outputs
        THEN Err("probabilities not available from the server response")
        ELSE IF "classes" \notin DOMAIN outputs
        THEN Err("classes not available from the server response")
        ELSE IF outputs["classes"].dtype # "DT_INT64"
        THEN Err("classes has unexpected data type")
        ELSE IF outputs["classes"].dims # <<1>>
        THEN Err("number of classes unexpected")
        ELSE Ok([probabilities |-> outputs["probabilities"].float_val,
                 max_idx |-> outputs["classes"].int64_val[1]])

(* C7: when the transport answers a predict request with a response,
   predict_with_preprocessing returns an error if "probabilities" is absent,
   if "classes" is absent, if classes is not of 64-bit integers or if its
   shape is not one dimension of size 1, and otherwise a PredictionResult
   with the class value as max_idx and the probabilities' float values. *)
C7_PredictResponseDecoded ==
    (InPredict /\ call.state = "returned" /\ call.answer # None /\ call.answer.val.ok) =>
        call.ret = Some(DecodedPrediction(call.answer.val.val))

(* C8: in predict_with_preprocessing the image is resolved before anything is
   sent; when to_image fails the call returns that error and sends nothing;
   one call sends at most one request, whatever the transport answers. *)
C8_ImageBeforeRequest ==
    InPredict =>
        /\ Cardinality(Requests) <= 1
        /\ \A i \in Requests : \E j \in 1..(i - 1) : wire[j].ev = "to_image"
        /\ Requests # {} => to_image(call.args.img).ok
        /\ ~to_image(call.args.img).ok =>
               /\ Requests = {}
               /\ call.state = "returned"
               /\ call.ret = Some(to_image(call.args.img))

C8_Witness ==
    /\ InPredict
    /\ ~to_image(call.args.img).ok
    /\ call.state = "returned"

=============================================================================
